---- MODULE Spec2Model ----
(***************************************************************************)
(* Transparent at-rest encryption wrapper of goleveldb's storage layer     *)
(* (leveldb/storage.go, later revision, lines 144-446): the cipher         *)
(* factory, the repeating-key (XOR) cipher, the segmented counter (AES-CTR)*)
(* cipher, and the reader/writer wrappers with their byte counters.        *)
(***************************************************************************)
EXTENDS Integers, Sequences, FiniteSets, TLC

\* ------------------------------------------------------------------ bytes

RECURSIVE BitXor(_, _)
\* a ^ b on non-negative integers, bit by bit.
BitXor(a, b) ==
  IF a = 0 THEN b
  ELSE IF b = 0 THEN a
  ELSE ((a + b) % 2) + 2 * BitXor(a \div 2, b \div 2)

\* a ^ b on 4-bit values, tabulated once.
NibbleXor == [a \in 0..15 |-> [b \in 0..15 |-> BitXor(a, b)]]

\* a ^ b on bytes (Go's ^ on two uint8).
ByteXor(a, b) ==
  16 * NibbleXor[a \div 16][b \div 16] + NibbleXor[a % 16][b % 16]

\* byte(i): conversion of an int to uint8.
ToByte(i) == i % 256

\* s[lo:hi] of Go (0-based, hi exclusive) on a 1-based sequence.
Slice(s, lo, hi) == SubSeq(s, lo + 1, hi)

\* ------------------------------------------------------- program constants

\* const BlockSize = 40: the segment size of the counter cipher.
BlockSize == 40

\* aes.BlockSize: the block size of the block cipher (bytes of one keystream block).
AesBlockSize == 16

\* The key length newAESCipher normalizes to (AES-256).
AesKeyLen == 32

\* ------------------------------------------------------------ xorCipher

\* The value a cipher call produces: the bytes returned, or a run-time panic.
Returned(bytes) == [called |-> TRUE, panic |-> FALSE, out |-> bytes]
Panicked == [called |-> TRUE, panic |-> TRUE, out |-> <<>>]

\* One execution of EncryptAt: the buffers it can reach when it returns (the
\* cipher's key, the caller's data, the result it allocated), the chunks it
\* handed to a keystream, and where its loop over the segments ended.
NewRun(key, data) ==
  [panic |-> FALSE, key |-> key, data |-> data,
   result |-> [i \in 1..Len(data) |-> 0],
   chunks |-> <<>>, looped |-> FALSE, processed |-> 0]

\* bytes stored at buf[lo], buf[lo + 1], ...
Overwrite(buf, lo, bytes) ==
  SubSeq(buf, 1, lo) \o bytes \o SubSeq(buf, lo + Len(bytes) + 1, Len(buf))

\* The stores of EncryptAt when result is a slice of the caller's data
\* ("result := data[:len(data)]") rather than a buffer of its own.
StoreAliased(m, lo, bytes) ==
  LET shared == Overwrite(m.data, lo, bytes)
  IN [m EXCEPT !.result = shared, !.data = shared]

\* The stores of EncryptAt: result[lo], result[lo + 1], ... = bytes, result
\* being the buffer that make([]byte, len(data)) returned.
Store(m, lo, bytes) == [m EXCEPT !.result = Overwrite(@, lo, bytes)]

\* xorCipher.EncryptAt indexing the key by the position in data alone, the
\* offset left out.
xorCipherEncryptAtNoOffset(key, data, offset) ==
  LET keyLen == Len(key) IN
  IF keyLen = 0 THEN Panicked
  ELSE Returned([i \in 1..Len(data) |->
                   ByteXor(data[i], key[((i - 1) % keyLen) + 1])])

\* xorCipher.EncryptAt: keyOffset := offset % keyLen panics (integer divide by
\* zero) when the key has length 0, before any byte is looked at.
xorCipherRun(key, data, offset) ==
  LET m == NewRun(key, data)
      keyLen == Len(key)
  IN IF keyLen = 0 THEN [m EXCEPT !.panic = TRUE]
     ELSE LET keyOffset == offset % keyLen IN
          Store(m, 0, [i \in 1..Len(data) |->
                         ByteXor(m.data[i],
                                 m.key[((keyOffset + (i - 1)) % keyLen) + 1])])

\* xorCipher.EncryptAt, the value it returns.
xorCipherEncryptAt(key, data, offset) ==
  LET run == xorCipherRun(key, data, offset)
  IN IF run.panic THEN Panicked ELSE Returned(run.result)

\* xorCipher.DecryptAt
xorCipherDecryptAt(key, data, offset) == xorCipherEncryptAt(key, data, offset)

\* ------------------------------------------------------------ aesCipher

RECURSIVE WeightedSum(_, _)
WeightedSum(s, n) ==
  IF n = 0 THEN 0 ELSE (n + 2) * s[n] + WeightedSum(s, n - 1)

\* aes.NewCipher(key): the block cipher keyed with key.  The primitive is a
\* trusted capability outside the repository; it is modelled as a keyed
\* function of the counter block whose output depends on every key byte,
\* every counter byte and the position in the block.
aesNewCipher(key) == WeightedSum(key, Len(key)) % 65536

\* block.Encrypt(ctr): the keystream block of one counter block, as the
\* value its bytes are derived from; byte j of the block is BlockByte(v, j).
aesBlockEncrypt(block, ctr) == (block + 31 * WeightedSum(ctr, Len(ctr))) % 256
BlockByte(v, j) == (v + 17 * j) % 256

\* newAESCipher with the filler loop writing zero bytes instead of byte(i).
newAESCipherZeroFill(key) ==
  LET k == IF Len(key) < AesKeyLen
             THEN [i \in 1..AesKeyLen |-> IF i <= Len(key) THEN key[i] ELSE 0]
           ELSE IF Len(key) > AesKeyLen THEN Slice(key, 0, AesKeyLen)
           ELSE key
  IN [kind |-> "aes", key |-> k, block |-> aesNewCipher(k)]

\* newAESCipher: the key padded with byte(i) at index i, or truncated, to 32 bytes.
newAESCipher(key) ==
  LET k == IF Len(key) < AesKeyLen
             THEN [i \in 1..AesKeyLen |->
                     IF i <= Len(key) THEN key[i] ELSE ToByte(i - 1)]
           ELSE IF Len(key) > AesKeyLen THEN Slice(key, 0, AesKeyLen)
           ELSE key
  IN [kind |-> "aes", key |-> k, block |-> aesNewCipher(k)]

RECURSIVE LittleEndian(_, _)
\* The n low-order bytes of v, least significant first.
LittleEndian(v, n) ==
  IF n = 0 THEN <<>> ELSE <<v % 256>> \o LittleEndian(v \div 256, n - 1)

\* binary.LittleEndian.PutUint64
PutUint64LE(v) == LittleEndian(v, 8)

\* aesCipher.getIV
getIV(c, offset) ==
  LET blockStart == (offset \div BlockSize) * BlockSize
  IN Slice(c.key, 0, 8) \o PutUint64LE(blockStart)

\* c.key after getIV when iv is a slice of the key ("iv := c.key[:16]")
\* rather than a buffer of its own: PutUint64 lands in the key.
getIVKeyAliased(c, offset) ==
  LET blockStart == (offset \div BlockSize) * BlockSize
  IN Overwrite(c.key, 8, PutUint64LE(blockStart))

\* c.key after getIV: iv is allocated by make, copy reads c.key[:8] and
\* PutUint64 writes iv[8:16].
getIVKey(c, offset) == c.key

RECURSIVE CtrInc(_, _)
\* The counter of cipher.NewCTR is the IV read as a big-endian integer:
\* one increment, with carry, of the first n bytes.
CtrInc(ctr, n) ==
  IF n = 0 THEN ctr
  ELSE IF ctr[n] < 255 THEN [ctr EXCEPT ![n] = ctr[n] + 1]
  ELSE CtrInc([ctr EXCEPT ![n] = 0], n - 1)

RECURSIVE CtrAdd(_, _)
CtrAdd(ctr, k) == IF k = 0 THEN ctr ELSE CtrAdd(CtrInc(ctr, Len(ctr)), k - 1)

\* cipher.NewCTR(c.block, iv): a keystream positioned at its first byte.
NewCTR(block, iv) == [block |-> block, iv |-> iv, used |-> 0]

RECURSIVE KeyStreamBlocks(_, _, _)
\* The keystream blocks number from..to of a stream: the encryptions of the
\* counter blocks iv + from, ..., iv + to.
KeyStreamBlocks(stream, from, to) ==
  IF from > to THEN <<>>
  ELSE <<aesBlockEncrypt(stream.block, CtrAdd(stream.iv, from))>>
         \o KeyStreamBlocks(stream, from + 1, to)

\* XORKeyStream of a stream in cipher feedback mode (cipher.NewCFBEncrypter
\* in the place of cipher.NewCTR): each byte is XORed with the keystream
\* and with the byte encrypted before it.
XORKeyStreamFeedback(stream, src) ==
  LET first == stream.used \div AesBlockSize
      blocks == KeyStreamBlocks(stream, first,
                                (stream.used + Len(src) - 1) \div AesBlockSize)
  IN [i \in 1..Len(src) |->
        LET k == stream.used + i - 1
            ks == BlockByte(blocks[(k \div AesBlockSize) - first + 1],
                            k % AesBlockSize)
        IN IF i = 1 THEN ByteXor(src[i], ks)
           ELSE ByteXor(ByteXor(src[i], ks), src[i - 1])]

\* stream.XORKeyStream(dst, src): the bytes written to dst, src XORed with
\* the keystream bytes number used, used + 1, ...
XORKeyStream(stream, src) ==
  LET first == stream.used \div AesBlockSize
      blocks == KeyStreamBlocks(stream, first,
                                (stream.used + Len(src) - 1) \div AesBlockSize)
  IN [i \in 1..Len(src) |->
        LET k == stream.used + i - 1
        IN ByteXor(src[i],
                  BlockByte(blocks[(k \div AesBlockSize) - first + 1],
                            k % AesBlockSize))]

\* Advance with the skip forgotten: the stream stays at its first byte.
AdvanceForgotten(stream, n) == stream

\* The stream after XORKeyStream over n bytes (the skip over a throwaway
\* buffer of n bytes).
Advance(stream, n) == [stream EXCEPT !.used = @ + n]

\* The cipher as the execution m finds it.
Cur(c, m) == [c EXCEPT !.key = m.key]

\* m after c.getIV(blockStart)
AfterGetIV(c, m, blockStart) ==
  [m EXCEPT !.key = getIVKey(Cur(c, m), blockStart)]

\* stream.XORKeyStream(result[lo:hi], data[lo:hi])
XorChunk(m, stream, lo, hi) ==
  Store([m EXCEPT !.chunks = Append(@, [lo |-> lo, hi |-> hi, iv |-> stream.iv,
                                        skip |-> stream.used])],
        lo, XORKeyStream(stream, Slice(m.data, lo, hi)))

RECURSIVE aesFullBlocks(_, _, _)
\* The loop "for processed < int64(len(data))" of aesCipher.EncryptAt.
aesFullBlocks(c, m, currentOffset) ==
  IF m.processed < Len(m.data)
    THEN LET blockStart == (currentOffset \div BlockSize) * BlockSize
             remainingBytes == Len(m.data) - m.processed
             bytesInBlock == IF remainingBytes < BlockSize
                               THEN remainingBytes ELSE BlockSize
             iv == getIV(Cur(c, m), blockStart)
             stream == NewCTR(c.block, iv)
             m2 == XorChunk(AfterGetIV(c, m, blockStart), stream,
                            m.processed, m.processed + bytesInBlock)
         IN aesFullBlocks(c, [m2 EXCEPT !.processed = @ + bytesInBlock],
                          currentOffset + bytesInBlock)
    ELSE [m EXCEPT !.looped = TRUE]

\* aesCipher.EncryptAt with one keystream for the whole of data, started in
\* the segment of its first byte.
aesCipherRunUnsegmented(c, data, offset) ==
  IF Len(data) = 0 THEN [NewRun(c.key, data) EXCEPT !.result = data]
  ELSE
    LET m == NewRun(c.key, data)
        blockStart == (offset \div BlockSize) * BlockSize
        offsetInBlock == offset - blockStart
        stream == NewCTR(c.block, getIV(c, blockStart))
        skipped == IF offsetInBlock > 0
                     THEN Advance(stream, offsetInBlock) ELSE stream
    IN XorChunk(AfterGetIV(c, m, blockStart), skipped, 0, Len(data))

\* aesCipher.EncryptAt, executed.
aesCipherRun(c, data, offset) ==
  IF Len(data) = 0 THEN [NewRun(c.key, data) EXCEPT !.result = data]
  ELSE
    LET m == NewRun(c.key, data)
        blockStart == (offset \div BlockSize) * BlockSize
        offsetInBlock == offset - blockStart
    IN IF offsetInBlock + Len(data) <= BlockSize
         THEN LET iv == getIV(c, blockStart)
                  stream == NewCTR(c.block, iv)
                  skipped == IF offsetInBlock > 0
                               THEN Advance(stream, offsetInBlock) ELSE stream
              IN XorChunk(AfterGetIV(c, m, blockStart), skipped, 0, Len(data))
         ELSE
           IF offsetInBlock > 0
             THEN LET bytesInFirstBlock == BlockSize - offsetInBlock
                      iv == getIV(c, blockStart)
                      stream == Advance(NewCTR(c.block, iv), offsetInBlock)
                      m2 == XorChunk(AfterGetIV(c, m, blockStart), stream,
                                     0, bytesInFirstBlock)
                  IN aesFullBlocks(c, [m2 EXCEPT !.processed = bytesInFirstBlock],
                                   offset + bytesInFirstBlock)
             ELSE aesFullBlocks(c, m, offset)

\* aesCipher.EncryptAt, the bytes it returns.
aesCipherEncryptAt(c, data, offset) == aesCipherRun(c, data, offset).result

\* aesCipher.DecryptAt
aesCipherDecryptAt(c, data, offset) == aesCipherEncryptAt(c, data, offset)

\* ------------------------------------------------------------- iCipher

\* A nil iCipher: what newCipher returns for "no cipher".
NilCipher == [kind |-> "nil", key |-> <<>>, block |-> 0]

\* newCipher as the earlier revision has it: a nil key is replaced by the
\* default key "goleveldb-key".
newCipherDefaultKey(version, key) ==
  LET k == IF key.isNil
             THEN <<103, 111, 108, 101, 118, 101, 108, 100, 98, 45, 107, 101, 121>>
             ELSE key.bytes
  IN IF version = 1 THEN [kind |-> "xor", key |-> k, block |-> 0]
     ELSE IF version = 2 THEN newAESCipher(k)
     ELSE NilCipher

\* newCipher: key is [isNil, bytes]; a nil slice and an empty non-nil slice differ.
newCipher(version, key) ==
  IF key.isNil THEN NilCipher
  ELSE IF version = 1 THEN [kind |-> "xor", key |-> key.bytes, block |-> 0]
  ELSE IF version = 2 THEN newAESCipher(key.bytes)
  ELSE NilCipher

\* iCipher.EncryptAt / DecryptAt executed, dispatched on the dynamic type.
EncryptAtRun(c, data, offset) ==
  IF c.kind = "xor" THEN xorCipherRun(c.key, data, offset)
  ELSE aesCipherRun(c, data, offset)

\* iCipher.EncryptAt, dispatched on the dynamic type (never called on nil).
EncryptAt(c, data, offset) ==
  IF c.kind = "xor" THEN xorCipherEncryptAt(c.key, data, offset)
  ELSE Returned(aesCipherEncryptAt(c, data, offset))

\* iCipher.DecryptAt
DecryptAt(c, data, offset) ==
  IF c.kind = "xor" THEN xorCipherDecryptAt(c.key, data, offset)
  ELSE Returned(aesCipherDecryptAt(c, data, offset))

\* --------------------------------------------------------------- bounds

\* Longest configured key tried (one byte more than AesKeyLen + 1, so that
\* padding, the exact length and truncation all occur).
MaxKeyLen == 34

\* Whole segments a span given to EncryptAt may cover beyond its first one.
MaxSegs == 1

\* Segments the start offset of a span may lie beyond segment 0.
MaxOffSegs == 1

\* ------------------------------------------------------------ the inputs

\* A key of length n (distinct, non-zero bytes).
KeyOfLen(n) == [isNil |-> FALSE, bytes |-> [i \in 1..n |-> ToByte(96 + 5 * i)]]
NilKey == [isNil |-> TRUE, bytes |-> <<>>]
\* "abc", the key of the XOR example.
KeyABC == [isNil |-> FALSE, bytes |-> <<97, 98, 99>>]

\* EncryptionVersion values: 0 NONE, 1 XOR, 2 AES, and one unsupported value.
Versions == 0..3

\* Plaintext of length n: all zero (pattern 0) or position-dependent.
DataOf(pattern, n) == [i \in 1..n |-> ToByte(pattern * (11 + 37 * i))]

\* Span lengths at and around the segment boundaries.
DataLens ==
  {0, 1, 3} \cup
  {m * BlockSize + e : m \in 1..MaxSegs, e \in {-1, 0, 1}} \cup {65}

\* Start offsets at and around the segment boundaries.
Offsets ==
  {s * BlockSize + d : s \in 0..MaxOffSegs, d \in {0, 1, 35, 39}}

\* Split points of a span of length n starting at offset o: its ends, the
\* first segment boundary inside it and the bytes next to that boundary.
SplitPoints(n, o) ==
  LET b == BlockSize - (o % BlockSize)
  IN {k \in {0, 1, 5, b - 1, b, b + 1, b + BlockSize, n - 1, n} : 0 <= k /\ k <= n}

\* ------------------------------------------------------------ the state

VARIABLES
  EncryptionVersion,  \* var EncryptionVersion int
  EncryptionKey,      \* var EncryptionKey []byte
  cpc,                \* cipher harness: the next call to make
  ciph,               \* cipher harness: the iCipher newCipher returned
  data,               \* cipher harness: the plaintext D
  offset,             \* cipher harness: the offset O
  split,              \* cipher harness: the split point k
  enc,                \* EncryptAt(D, O)
  dec,                \* DecryptAt(enc, O)
  twice,              \* EncryptAt(enc, O)
  left,               \* EncryptAt(D[0:k], O)
  right,              \* EncryptAt(D[k:], O + k)
  flip,               \* EncryptAt(D with the byte at index k changed, O)
  run,                \* the execution of EncryptAt(D, O): buffers and chunks
  disk,               \* the bytes the underlying medium holds for the file
  plain,              \* history: the caller's byte behind each byte of disk
  w,                  \* the iStorageWriter Create returned
  r,                  \* the iStorageReader Open returned
  cursor,             \* the underlying reader's own cursor
  read,               \* iStorage.read
  write,              \* iStorage.write
  sumRead,            \* history: bytes the Read/ReadAt calls returned
  sumWritten,         \* history: bytes the underlying stream accepted from Write
  nReads,             \* history: Read and ReadAt calls made
  nWrites,            \* history: Write calls made
  last,               \* history: the last call, its inputs and what it returned
  panicked,           \* the program stopped with a run-time panic
  files,              \* several handles: the bytes the medium holds per file
  hw,                 \* several handles: the writer created for each file
  hr                  \* several handles: a reader opened on one of the files

cipherVars == <<cpc, ciph, data, offset, split, enc, dec, twice, left, right,
                flip, run>>
configVars == <<EncryptionVersion, EncryptionKey>>
streamVars == <<disk, plain, w, r, cursor, read, write, sumRead, sumWritten,
                nReads, nWrites, last, panicked>>
handleVars == <<files, hw, hr>>
vars == <<configVars, cipherVars, streamVars, handleVars>>

NotCalled == [called |-> FALSE, panic |-> FALSE, out |-> <<>>]

\* A handle not yet returned by Open/Create.
NoHandle == [state |-> "none", cipher |-> NilCipher, offset |-> 0]

\* No call made yet.  A call's record: what the caller passed (op, len, p, at),
\* what the underlying stream returned (un, uerr, got) or was handed (sent),
\* whether and at which offset the cipher ran (ciphered, cipherAt), what the
\* wrapper returned (n, err, buf: the caller's buffer after the call), and
\* the handle's and the facade's fields before the call.
NoCall == [op |-> "none", len |-> 0, p |-> <<>>, at |-> 0,
           un |-> 0, uerr |-> "nil", got |-> <<>>, sent |-> <<>>,
           ciphered |-> FALSE, cipherAt |-> 0,
           n |-> 0, err |-> "nil", buf |-> <<>>, calls |-> 0,
           offsetBefore |-> 0, readBefore |-> 0, writeBefore |-> 0]

\* The storage facade right after newIStorage, no handle open.
StreamIdle ==
  /\ disk = <<>> /\ plain = <<>>
  /\ w = NoHandle /\ r = NoHandle /\ cursor = 0
  /\ read = 0 /\ write = 0 /\ sumRead = 0 /\ sumWritten = 0
  /\ nReads = 0 /\ nWrites = 0
  /\ last = NoCall /\ panicked = FALSE

\* The files handles are created for: storage.FileDesc{Type, Num}.
FileDescs == {[Type |-> 2, Num |-> 1], [Type |-> 4, Num |-> 2]}

\* What a call in progress on a handle holds after its underlying call.
NoPending == [op |-> "none", len |-> 0, n |-> 0, err |-> "nil", got |-> <<>>,
              at |-> 0, pos |-> 0]

\* What the last Read or ReadAt of a handle delivered.
NothingDelivered == [op |-> "none", pos |-> 0, got |-> <<>>, buf |-> <<>>]

\* A handle not yet created.
NoFileHandle ==
  [state |-> "none", fd |-> [Type |-> 0, Num |-> 0], cipher |-> NilCipher,
   offset |-> 0, cursor |-> 0, calls |-> 0, pending |-> NoPending,
   hist |-> <<>>, delivered |-> NothingDelivered]

\* No file, no handle.
HandlesIdle ==
  /\ files = [fd \in FileDescs |-> <<>>]
  /\ hw = [fd \in FileDescs |-> NoFileHandle]
  /\ hr = NoFileHandle

\* The cipher harness at rest.
CipherIdle ==
  /\ cpc = "off" /\ ciph = NilCipher /\ data = <<>> /\ offset = 0 /\ split = 0
  /\ enc = NotCalled /\ dec = NotCalled /\ twice = NotCalled
  /\ left = NotCalled /\ right = NotCalled /\ flip = NotCalled
  /\ run = NewRun(<<>>, <<>>)

\* ---------------------------------------- the cipher, called as a function

\* Keys the ciphers are exercised with: absent, empty, shorter than, equal
\* to and longer than the AES key length.
CipherKeys == {KeyOfLen(0), KeyABC, KeyOfLen(AesKeyLen), KeyOfLen(AesKeyLen + 1)}

CipherInit ==
  /\ \/ /\ EncryptionVersion \in {1, 2}
        /\ EncryptionKey \in CipherKeys
        /\ \E p \in {0, 1}, n \in DataLens : data = DataOf(p, n)
        /\ offset \in Offsets
        /\ split \in SplitPoints(Len(data), offset)
     \/ /\ EncryptionVersion \in Versions
        /\ EncryptionKey \in {NilKey} \cup {KeyOfLen(n) : n \in 0..MaxKeyLen}
        /\ data = DataOf(1, 3)
        /\ offset = 0
        /\ split = 1
  /\ cpc = "new"
  /\ ciph = NilCipher
  /\ enc = NotCalled /\ dec = NotCalled /\ twice = NotCalled
  /\ left = NotCalled /\ right = NotCalled /\ flip = NotCalled
  /\ run = NewRun(<<>>, <<>>)
  /\ StreamIdle
  /\ HandlesIdle

\* cipher := newCipher(EncryptionKey)
CallNewCipher ==
  /\ cpc = "new"
  /\ ciph' = newCipher(EncryptionVersion, EncryptionKey)
  /\ cpc' = "encrypt"
  /\ UNCHANGED <<streamVars, handleVars, configVars, data, offset, split, enc,
                 dec, twice, left, right, flip, run>>

\* enc := cipher.EncryptAt(D, O); a panic ends the program.  Every call
\* leaves the cipher as its execution left the key.
CallEncryptAt ==
  /\ cpc = "encrypt" /\ ciph.kind # "nil"
  /\ enc' = EncryptAt(ciph, data, offset)
  /\ run' = EncryptAtRun(ciph, data, offset)
  /\ ciph' = Cur(ciph, run')
  /\ cpc' = IF enc'.panic THEN "panic" ELSE "decrypt"
  /\ UNCHANGED <<streamVars, handleVars, configVars, data, offset, split, dec,
                 twice, left, right, flip>>

\* dec := cipher.DecryptAt(enc, O)
CallDecryptAt ==
  /\ cpc = "decrypt"
  /\ dec' = DecryptAt(ciph, enc.out, offset)
  /\ ciph' = Cur(ciph, EncryptAtRun(ciph, enc.out, offset))
  /\ cpc' = "twice"
  /\ UNCHANGED <<streamVars, handleVars, configVars, data, offset, split, enc,
                 twice, left, right, flip, run>>

\* twice := cipher.EncryptAt(enc, O)
CallEncryptAgain ==
  /\ cpc = "twice"
  /\ twice' = EncryptAt(ciph, enc.out, offset)
  /\ ciph' = Cur(ciph, EncryptAtRun(ciph, enc.out, offset))
  /\ cpc' = "left"
  /\ UNCHANGED <<streamVars, handleVars, configVars, data, offset, split, enc,
                 dec, left, right, flip, run>>

\* left := cipher.EncryptAt(D[0:k], O)
CallEncryptLeft ==
  /\ cpc = "left"
  /\ left' = EncryptAt(ciph, Slice(data, 0, split), offset)
  /\ ciph' = Cur(ciph, EncryptAtRun(ciph, Slice(data, 0, split), offset))
  /\ cpc' = "right"
  /\ UNCHANGED <<streamVars, handleVars, configVars, data, offset, split, enc,
                 dec, twice, right, flip, run>>

\* right := cipher.EncryptAt(D[k:], O + k)
CallEncryptRight ==
  /\ cpc = "right"
  /\ right' = EncryptAt(ciph, Slice(data, split, Len(data)), offset + split)
  /\ ciph' = Cur(ciph, EncryptAtRun(ciph, Slice(data, split, Len(data)),
                                    offset + split))
  /\ cpc' = "flip"
  /\ UNCHANGED <<streamVars, handleVars, configVars, data, offset, split, enc,
                 dec, twice, left, flip, run>>

\* D with the byte at index k changed in every bit.
Flipped(d, k) == [d EXCEPT ![k + 1] = ByteXor(@, 255)]

\* flip := cipher.EncryptAt(D', O), D' being D with the byte at index k
\* changed; when D has no byte at index k the call is left out.
CallEncryptFlipped ==
  /\ cpc = "flip"
  /\ IF split < Len(data)
       THEN /\ flip' = EncryptAt(ciph, Flipped(data, split), offset)
            /\ ciph' = Cur(ciph, EncryptAtRun(ciph, Flipped(data, split), offset))
       ELSE UNCHANGED <<flip, ciph>>
  /\ cpc' = "done"
  /\ UNCHANGED <<streamVars, handleVars, configVars, data, offset, split, enc,
                 dec, twice, left, right, run>>

CipherNext ==
  \/ CallNewCipher
  \/ CallEncryptAt
  \/ CallDecryptAt
  \/ CallEncryptAgain
  \/ CallEncryptLeft
  \/ CallEncryptRight
  \/ CallEncryptFlipped

SpecCipher == CipherInit /\ [][CipherNext]_vars

\* ------------------------------------------------------ the storage facade

\* Read, ReadAt and Write calls made on the handles of one run.
MaxCalls == 4

\* Keys the facade is configured with: absent, empty, "abc".
StreamKeys == {NilKey, KeyOfLen(0), KeyABC}

\* Buffer lengths of the callers: a short buffer and one longer than a segment.
BufSizes == {2, BlockSize + 1}

\* Offsets the callers pass to ReadAt.
ReadAtOffsets == {1, BlockSize - 1}

\* What the underlying stream may answer to a Write of len bytes: all of
\* them, or fewer together with an error (io.Writer).
WriteOutcomes(len) ==
  {[n |-> len, err |-> "nil"]} \cup
  {[n |-> k, err |-> "ErrShortWrite"] : k \in {0, 1}}

\* The bytes a read of len bytes can return when avail are left.
Most(len, avail) == IF avail < 0 THEN 0 ELSE IF len < avail THEN len ELSE avail

\* What the underlying stream may answer to a Read into len bytes with avail
\* bytes left: all it can or a single byte, with or without an error, or
\* nothing and an error (io.Reader).
ReadOutcomes(len, avail) ==
  {[n |-> k, err |-> e] : k \in {1, Most(len, avail)} \cap 1..Most(len, avail),
                          e \in {"nil", "EOF"}}
  \cup {[n |-> 0, err |-> "EOF"]}

\* What the underlying stream may answer to a ReadAt: all it can, with or
\* without an error, or nothing and an error (io.ReaderAt).
ReadAtOutcomes(len, avail) ==
  {[n |-> Most(len, avail), err |-> e] : e \in {"nil", "EOF"}}
  \cup {[n |-> 0, err |-> "EOF"]}

\* The byte the caller stores at position pos of the file.
SourceByte(pos) == ToByte(3 + 7 * pos)

Init ==
  /\ EncryptionVersion \in Versions
  /\ EncryptionKey \in StreamKeys
  /\ StreamIdle
  /\ CipherIdle
  /\ HandlesIdle

\* iStorage.Open
Open ==
  /\ ~panicked /\ r.state = "none"
  /\ \E uerr \in {"nil", "ErrNotExist"} :
       /\ r' = [state |-> IF uerr = "nil" THEN "open" ELSE "failed",
                cipher |-> newCipher(EncryptionVersion, EncryptionKey),
                offset |-> 0]
       /\ last' = [NoCall EXCEPT !.op = "Open", !.uerr = uerr, !.err = uerr,
                     !.calls = 1]
  /\ cursor' = 0
  /\ UNCHANGED <<configVars, cipherVars, handleVars, disk, plain, w, read,
                 write, sumRead, sumWritten, nReads, nWrites, panicked>>

\* iStorage.Create
Create ==
  /\ ~panicked /\ w.state = "none"
  /\ \E uerr \in {"nil", "ErrExist"} :
       /\ w' = [state |-> IF uerr = "nil" THEN "open" ELSE "failed",
                cipher |-> newCipher(EncryptionVersion, EncryptionKey),
                offset |-> 0]
       /\ last' = [NoCall EXCEPT !.op = "Create", !.uerr = uerr, !.err = uerr,
                     !.calls = 1]
  /\ disk' = <<>> /\ plain' = <<>>
  /\ UNCHANGED <<configVars, cipherVars, handleVars, r, cursor, read, write,
                 sumRead, sumWritten, nReads, nWrites, panicked>>

\* iStorageWriter.Write, the underlying Write answering out to the buffer
\* handed to it.  The caller's buffer is left as EncryptAt left it: the
\* underlying Write does not modify what it is given (io.Writer).
WriteCall(p, out) ==
  LET hasCipher == w.cipher.kind # "nil"
      call == [NoCall EXCEPT !.op = "Write", !.len = Len(p), !.p = p,
                 !.at = Len(disk), !.ciphered = hasCipher, !.cipherAt = w.offset,
                 !.offsetBefore = w.offset, !.readBefore = read,
                 !.writeBefore = write]
  IN \E exec \in {IF hasCipher THEN EncryptAtRun(w.cipher, p, w.offset)
                                ELSE NewRun(<<>>, p)} :
     LET e == IF ~hasCipher THEN Returned(p)
              ELSE IF exec.panic THEN Panicked ELSE Returned(exec.result)
     IN
     IF e.panic
       THEN /\ panicked' = TRUE
            /\ last' = [call EXCEPT !.err = "panic", !.buf = exec.data]
            /\ UNCHANGED <<disk, plain, w, write, sumWritten>>
       ELSE /\ disk' = disk \o Slice(e.out, 0, out.n)
            /\ plain' = plain \o Slice(p, 0, out.n)
            /\ sumWritten' = sumWritten + out.n
            /\ last' = [call EXCEPT !.sent = e.out, !.un = out.n, !.uerr = out.err,
                          !.n = out.n, !.err = out.err, !.buf = exec.data,
                          !.calls = 1]
            /\ IF out.err # "nil"
                 THEN UNCHANGED <<w, write>>
                 ELSE /\ w' = [w EXCEPT !.offset = @ + out.n]
                      /\ write' = write + out.n
            /\ UNCHANGED panicked

Write ==
  /\ ~panicked /\ w.state = "open" /\ nReads + nWrites < MaxCalls
  /\ \E len \in BufSizes : \E out \in WriteOutcomes(len) :
       WriteCall([i \in 1..len |-> SourceByte(Len(disk) + i - 1)], out)
  /\ nWrites' = nWrites + 1
  /\ UNCHANGED <<configVars, cipherVars, handleVars, r, cursor, read, sumRead,
                 nReads>>

\* The body of Read and ReadAt as the earlier revision has it: "if err != nil
\* { return }" comes first, so bytes that arrive together with an error are
\* handed to the caller as the underlying call left them.
DeliverErrFirst(call, got, out, at) ==
  LET n == out.n
      decrypts == out.err = "nil" /\ r.cipher.kind # "nil"
      c == [call EXCEPT !.un = n, !.uerr = out.err, !.got = got, !.calls = 1,
              !.ciphered = decrypts, !.cipherAt = at,
              !.offsetBefore = r.offset, !.readBefore = read,
              !.writeBefore = write]
  IN \E d \in {IF decrypts THEN DecryptAt(r.cipher, got, at) ELSE Returned(got)} :
     IF d.panic
       THEN /\ panicked' = TRUE
            /\ last' = [c EXCEPT !.err = "panic"]
            /\ UNCHANGED <<read, sumRead>>
       ELSE /\ last' = [c EXCEPT !.n = n, !.err = out.err, !.buf = d.out]
            /\ read' = IF out.err = "nil" THEN read + n ELSE read
            /\ sumRead' = sumRead + n
            /\ UNCHANGED panicked

\* The body shared by iStorageReader.Read and ReadAt after the underlying
\* call returned got (out.n bytes) and out.err: "if n > 0 && r.cipher != nil".
\* at is the offset handed to DecryptAt.
Deliver(call, got, out, at) ==
  LET n == out.n
      decrypts == n > 0 /\ r.cipher.kind # "nil"
      c == [call EXCEPT !.un = n, !.uerr = out.err, !.got = got, !.calls = 1,
              !.ciphered = decrypts, !.cipherAt = at,
              !.offsetBefore = r.offset, !.readBefore = read,
              !.writeBefore = write]
  IN \E d \in {IF decrypts THEN DecryptAt(r.cipher, got, at) ELSE Returned(got)} :
     IF d.panic
       THEN /\ panicked' = TRUE
            /\ last' = [c EXCEPT !.err = "panic"]
            /\ UNCHANGED <<read, sumRead>>
       ELSE /\ last' = [c EXCEPT !.n = n, !.err = out.err, !.buf = d.out]
            /\ read' = IF decrypts THEN read + n ELSE read
            /\ sumRead' = sumRead + n
            /\ UNCHANGED panicked

\* iStorageReader.Read
Read ==
  /\ ~panicked /\ r.state = "open" /\ nReads + nWrites < MaxCalls
  /\ \E len \in BufSizes : \E out \in ReadOutcomes(len, Len(disk) - cursor) :
       LET got == Slice(disk, cursor, cursor + out.n)
           currentOffset == r.offset
       IN /\ Deliver([NoCall EXCEPT !.op = "Read", !.len = len, !.at = cursor],
                     got, out, currentOffset)
          /\ cursor' = cursor + out.n
          /\ r' = IF out.n > 0 /\ r.cipher.kind # "nil" /\ ~panicked'
                    THEN [r EXCEPT !.offset = currentOffset + out.n]
                    ELSE r
  /\ nReads' = nReads + 1
  /\ UNCHANGED <<configVars, cipherVars, handleVars, disk, plain, w, write,
                 sumWritten, nWrites>>

\* ReadAt written like Read: it moves the handle's trackedOffset to the end
\* of the bytes it delivered.
ReadAtSeeks ==
  /\ ~panicked /\ r.state = "open" /\ nReads + nWrites < MaxCalls
  /\ \E len \in BufSizes, off \in ReadAtOffsets :
       \E out \in ReadAtOutcomes(len, Len(disk) - off) :
         /\ Deliver([NoCall EXCEPT !.op = "ReadAt", !.len = len, !.at = off],
                    Slice(disk, off, off + out.n), out, off)
         /\ r' = IF out.n > 0 /\ r.cipher.kind # "nil" /\ ~panicked'
                   THEN [r EXCEPT !.offset = off + out.n]
                   ELSE r
  /\ nReads' = nReads + 1
  /\ UNCHANGED <<configVars, cipherVars, handleVars, disk, plain, w, cursor,
                 write, sumWritten, nWrites>>

\* iStorageReader.ReadAt
ReadAt ==
  /\ ~panicked /\ r.state = "open" /\ nReads + nWrites < MaxCalls
  /\ \E len \in BufSizes, off \in ReadAtOffsets :
       \E out \in ReadAtOutcomes(len, Len(disk) - off) :
         Deliver([NoCall EXCEPT !.op = "ReadAt", !.len = len, !.at = off],
                 Slice(disk, off, off + out.n), out, off)
  /\ nReads' = nReads + 1
  /\ UNCHANGED <<configVars, cipherVars, handleVars, disk, plain, w, r,
                 cursor, write, sumWritten, nWrites>>

Next ==
  \/ Open
  \/ Create
  \/ Write
  \/ Read
  \/ ReadAt

Spec == Init /\ [][Next]_vars

\* ------------------------------------------- several handles, concurrently

\* Calls begun on all handles of one run.
MaxHandleCalls == 2

\* A handle with the trackedOffset started at the file's number.
NewHandleFileOffset(fd, cipher, uerr) ==
  [NoFileHandle EXCEPT !.state = IF uerr = "nil" THEN "idle" ELSE "failed",
                       !.fd = fd, !.cipher = cipher, !.offset = fd.Num]

\* &iStorageReader{r, c, cipher, 0, fd} / &iStorageWriter{w, c, cipher, 0, fd}
NewHandle(fd, cipher, uerr) ==
  [NoFileHandle EXCEPT !.state = IF uerr = "nil" THEN "idle" ELSE "failed",
                       !.fd = fd, !.cipher = cipher, !.offset = 0]

\* Calls begun so far.
CallsBegun ==
  LET a == CHOOSE fd \in FileDescs : TRUE
      b == CHOOSE fd \in FileDescs : fd # a
  IN hw[a].calls + hw[b].calls + hr.calls

HandlesInit ==
  /\ EncryptionVersion \in Versions
  /\ EncryptionKey \in StreamKeys
  /\ StreamIdle
  /\ CipherIdle
  /\ HandlesIdle

\* What no call on a handle changes.
handleFrame == <<configVars, cipherVars, disk, plain, w, r, cursor, nReads,
                 nWrites, last>>

\* iStorage.Create(fd)
CreateFd(fd) ==
  /\ ~panicked /\ hw[fd].state = "none"
  /\ \E uerr \in {"nil", "ErrExist"} :
       hw' = [hw EXCEPT ![fd] =
                NewHandle(fd, newCipher(EncryptionVersion, EncryptionKey), uerr)]
  /\ files' = [files EXCEPT ![fd] = <<>>]
  /\ UNCHANGED <<handleFrame, hr, read, write, sumRead, sumWritten, panicked>>

\* iStorage.Open(fd), of a file that was created.
OpenFd(fd) ==
  /\ ~panicked /\ hr.state = "none" /\ hw[fd].state # "none"
  /\ \E uerr \in {"nil", "ErrNotExist"} :
       hr' = NewHandle(fd, newCipher(EncryptionVersion, EncryptionKey), uerr)
  /\ UNCHANGED <<handleFrame, hw, files, read, write, sumRead, sumWritten,
                 panicked>>

\* iStorageWriter.Write up to the return of the underlying Write: the
\* buffer is encrypted at the handle's trackedOffset and handed down.
WriteBegins(fd) ==
  /\ ~panicked /\ hw[fd].state = "idle" /\ CallsBegun < MaxHandleCalls
  /\ \E len \in BufSizes : \E out \in WriteOutcomes(len) :
       LET h == hw[fd]
           p == DataOf(1, len)
           hasCipher == h.cipher.kind # "nil"
       IN \E exec \in {IF hasCipher THEN EncryptAtRun(h.cipher, p, h.offset)
                                     ELSE [NewRun(<<>>, p) EXCEPT !.result = p]} :
            IF exec.panic
              THEN /\ panicked' = TRUE
                   /\ UNCHANGED <<hw, files>>
              ELSE /\ files' = [files EXCEPT
                                  ![fd] = @ \o Slice(exec.result, 0, out.n)]
                   /\ hw' = [hw EXCEPT ![fd] =
                               [h EXCEPT !.state = "called", !.calls = @ + 1,
                                         !.pending = [NoPending EXCEPT
                                            !.op = "Write", !.len = len,
                                            !.n = out.n, !.err = out.err]]]
                   /\ UNCHANGED panicked
  /\ UNCHANGED <<handleFrame, hr, read, write, sumRead, sumWritten>>

\* iStorageWriter.Write from there to its return: "if err != nil { return }",
\* w.offset += n, atomic.AddUint64(&w.c.write, n).
WriteReturns(fd) ==
  /\ ~panicked /\ hw[fd].state = "called"
  /\ LET h == hw[fd]
         ok == h.pending.err = "nil"
     IN /\ hw' = [hw EXCEPT ![fd] =
                    [h EXCEPT !.state = "idle", !.pending = NoPending,
                              !.offset = IF ok THEN @ + h.pending.n ELSE @,
                              !.hist = Append(@, h.pending)]]
        /\ write' = IF ok THEN write + h.pending.n ELSE write
        /\ sumWritten' = sumWritten + h.pending.n
  /\ UNCHANGED <<handleFrame, hr, files, read, sumRead, panicked>>

\* iStorageReader.Read up to the return of the underlying Read.
ReadBegins ==
  /\ ~panicked /\ hr.state = "idle" /\ CallsBegun < MaxHandleCalls
  /\ \E len \in BufSizes :
       \E out \in ReadOutcomes(len, Len(files[hr.fd]) - hr.cursor) :
         hr' = [hr EXCEPT !.state = "called", !.calls = @ + 1,
                          !.cursor = @ + out.n,
                          !.pending = [op |-> "Read", len |-> len, n |-> out.n,
                                       err |-> out.err,
                                       got |-> Slice(files[hr.fd], hr.cursor,
                                                     hr.cursor + out.n),
                                       at |-> hr.offset, pos |-> hr.cursor]]
  /\ UNCHANGED <<handleFrame, hw, files, read, write, sumRead, sumWritten,
                 panicked>>

\* iStorageReader.ReadAt up to the return of the underlying ReadAt.
ReadAtBegins ==
  /\ ~panicked /\ hr.state = "idle" /\ CallsBegun < MaxHandleCalls
  /\ \E len \in BufSizes, off \in ReadAtOffsets :
       \E out \in ReadAtOutcomes(len, Len(files[hr.fd]) - off) :
         hr' = [hr EXCEPT !.state = "called", !.calls = @ + 1,
                          !.pending = [op |-> "ReadAt", len |-> len, n |-> out.n,
                                       err |-> out.err,
                                       got |-> Slice(files[hr.fd], off,
                                                     off + out.n),
                                       at |-> off, pos |-> off]]
  /\ UNCHANGED <<handleFrame, hw, files, read, write, sumRead, sumWritten,
                 panicked>>

\* Read and ReadAt from there to their return: "if n > 0 && r.cipher != nil",
\* the decryption in place, r.offset (Read) and atomic.AddUint64(&r.c.read, n).
ReadReturns ==
  /\ ~panicked /\ hr.state = "called"
  /\ LET pd == hr.pending
         decrypts == pd.n > 0 /\ hr.cipher.kind # "nil"
     IN \E d \in {IF decrypts THEN DecryptAt(hr.cipher, pd.got, pd.at)
                                ELSE Returned(pd.got)} :
          IF d.panic
            THEN /\ panicked' = TRUE
                 /\ UNCHANGED <<hr, read, sumRead>>
            ELSE /\ hr' = [hr EXCEPT
                             !.state = "idle", !.pending = NoPending,
                             !.offset = IF decrypts /\ pd.op = "Read"
                                          THEN pd.at + pd.n ELSE @,
                             !.delivered = [op |-> pd.op, pos |-> pd.pos,
                                            got |-> pd.got, buf |-> d.out]]
                 /\ read' = IF decrypts THEN read + pd.n ELSE read
                 /\ sumRead' = sumRead + pd.n
                 /\ UNCHANGED panicked
  /\ UNCHANGED <<handleFrame, hw, files, write, sumWritten>>

HandlesNext ==
  \/ \E fd \in FileDescs : CreateFd(fd)
  \/ \E fd \in FileDescs : OpenFd(fd)
  \/ \E fd \in FileDescs : WriteBegins(fd)
  \/ \E fd \in FileDescs : WriteReturns(fd)
  \/ ReadBegins
  \/ ReadAtBegins
  \/ ReadReturns

SpecHandles == HandlesInit /\ [][HandlesNext]_vars

\* ------------------------------------------------------------ properties

\* C1: end-to-end stream round trip.  Every byte a Read or ReadAt delivers
\* for absolute offset O is the byte the caller's Write calls stored at
\* offset O (same mode and key for the writer and the reader).
C1_StreamRoundTrip ==
  (last.op \in {"Read", "ReadAt"} /\ last.err # "panic") =>
    \A i \in 1..last.n :
      last.at + i <= Len(plain) /\ last.buf[i] = plain[last.at + i]

\* C4: counter correctness.  In every mode totalRead is the sum of the bytes
\* the Read/ReadAt calls returned and totalWritten the sum of the bytes the
\* Write calls had accepted.
C4_CounterCorrectness ==
  /\ read = sumRead
  /\ write = sumWritten

\* C5: write offset tracking.  After any sequence of full, short and failed
\* Write calls the writer's trackedOffset is the number of bytes the
\* underlying stream has accepted, and each Write encrypts at that offset.
C5_WriteOffsetTracking ==
  /\ w.state = "open" => w.offset = Len(disk)
  /\ (last.op = "Write" /\ last.ciphered) => last.cipherAt = last.at

\* C6: read error handling.  A successful Read decrypts the bytes returned at
\* the handle's trackedOffset, advances trackedOffset by them and adds them
\* to the read counter; a Read whose underlying call returned an error
\* returns that error and leaves trackedOffset and totalRead as they were.
C6_ReadErrorHandling ==
  (last.op = "Read" /\ last.err # "panic") =>
    /\ last.uerr = "nil" =>
         /\ r.offset = last.offsetBefore + last.n
         /\ read = last.readBefore + last.n
         /\ last.ciphered => last.cipherAt = last.offsetBefore
    /\ last.uerr # "nil" =>
         /\ last.err = last.uerr
         /\ r.offset = last.offsetBefore
         /\ read = last.readBefore

\* C7: ReadAt is stateless with respect to trackedOffset.  A ReadAt decrypts
\* at the offset its caller passed and leaves trackedOffset as it was; so a
\* Read, whatever ReadAt calls came before it, decrypts at the position of
\* the sequential cursor (the bytes the earlier Read calls delivered) and
\* delivers the decryption, at that position, of the bytes it got.
C7_ReadAtStateless ==
  /\ last.op = "ReadAt" =>
       /\ r.offset = last.offsetBefore
       /\ last.ciphered => last.cipherAt = last.at
  /\ (last.op = "Read" /\ last.ciphered) =>
       /\ last.offsetBefore = last.at
       /\ last.cipherAt = last.at
       /\ last.err # "panic" =>
            last.buf = DecryptAt(r.cipher, last.got, last.at).out
  /\ (r.state = "open" /\ r.cipher.kind # "nil") => r.offset = cursor

\* C7 witness: a Read that delivered bytes at a cursor beyond 0 on a handle
\* whose earlier calls include a ReadAt that delivered bytes.
C7_Witness ==
  /\ last.op = "Read" /\ last.ciphered /\ last.n > 0 /\ last.at > 0
  /\ read > cursor

\* C8: cipher factory passthrough.  With an empty key (absent or of length
\* zero) or mode None, for every mode selector value, the handles carry the
\* passthrough cipher, and no call on them transforms data or fails because
\* of the cipher.
C8_FactoryPassthrough ==
  (Len(EncryptionKey.bytes) = 0 \/ EncryptionVersion = 0) =>
    /\ r.state # "none" => r.cipher.kind = "nil"
    /\ w.state # "none" => w.cipher.kind = "nil"
    /\ ~panicked
    /\ ~last.ciphered

\* C9: unsupported mode is fatal at construction.  With a non-empty key and
\* EncryptionVersion outside {0, 1, 2} building the cipher fails, so no handle
\* that reads or writes data is produced.
C9_UnsupportedModeFatal ==
  (Len(EncryptionKey.bytes) > 0 /\ EncryptionVersion \notin {0, 1, 2}) =>
    /\ r.state # "open"
    /\ w.state # "open"

\* C2: split-invariance of the segmented counter cipher.  For every key, data
\* D, offset O and split point k, EncryptAt(D[0:k], O) followed by
\* EncryptAt(D[k:], O + k) is EncryptAt(D, O).
C2_SplitInvariance ==
  (cpc = "done" /\ ciph.kind = "aes") =>
    /\ ~left.panic /\ ~right.panic /\ ~enc.panic
    /\ left.out \o right.out = enc.out

\* C2 witness: Example 2, bytes [35,100) in one call against [35,40) alone.
C2_Witness ==
  /\ cpc = "done" /\ ciph.kind = "aes"
  /\ offset = 35 /\ Len(data) = 65 /\ split = 5
  /\ data # DataOf(0, 65)
  /\ left.out = Slice(enc.out, 0, 5)
  /\ enc.out # data

\* C3: cipher round trip.  For both strategies, every key, D and O,
\* DecryptAt(EncryptAt(D, O), O) = D and the calls complete normally; for the
\* repeating-key cipher EncryptAt(EncryptAt(D, O), O) = D as well.
C3_RoundTrip ==
  /\ enc.called => ~enc.panic
  /\ dec.called => (~dec.panic /\ dec.out = data)
  /\ (twice.called /\ ciph.kind = "xor") => (~twice.panic /\ twice.out = data)

\* C10, filler counted from zero: the normalized key of the segmented counter cipher is the
\* input key followed by the filler bytes 0, 1, 2, ... up to 32 bytes, or the
\* first 32 bytes of a longer key.
C10_FillerFromZero ==
  (cpc # "new" /\ ciph.kind = "aes") =>
    LET in == EncryptionKey.bytes
        L == Len(in)
    IN /\ Len(ciph.key) = AesKeyLen
       /\ \A i \in 1..AesKeyLen :
            ciph.key[i] = IF i <= L THEN in[i] ELSE i - L - 1

\* C10 amended: the normalized key has 32 bytes; its first min(L, 32) bytes
\* are the input key's, and every filler byte has the value of its own
\* 0-based index in the normalized key (L, L + 1, ..., 31).
C10_KeyNormalization ==
  (cpc # "new" /\ ciph.kind = "aes") =>
    LET in == EncryptionKey.bytes
        L == Len(in)
    IN /\ Len(ciph.key) = AesKeyLen
       /\ \A i \in 1..AesKeyLen :
            ciph.key[i] = IF i <= L THEN in[i] ELSE i - 1

\* C10 witness: the 3-byte key "abc" was padded to a, b, c, 3, 4, ..., 31.
C10_Witness ==
  /\ cpc # "new" /\ ciph.kind = "aes"
  /\ Len(EncryptionKey.bytes) = 3
  /\ ciph.key[3] = EncryptionKey.bytes[3] /\ ciph.key[4] = 3 /\ ciph.key[32] = 31

\* C12: I/O errors pass through unmodified and are never retried.  Each of
\* Open, Create, Read, ReadAt and Write makes exactly one call to the
\* underlying medium, and when that call returned an error the wrapper
\* returns this error and (Read, ReadAt, Write) this byte count.
C12_ErrorsPassThrough ==
  last.op # "none" =>
    /\ last.calls = 1
    /\ last.uerr # "nil" => (last.err = last.uerr /\ last.n = last.un)

\* C14: repeating-key cipher definition.  For every non-empty key of length
\* L, data D and offset O, EncryptAt(D, O) has the length of D, its byte i is
\* D[i] XOR key[(O + i) mod L], and EncryptAt(D, O + L) = EncryptAt(D, O).
C14_RepeatingKey ==
  (enc.called /\ ciph.kind = "xor" /\ Len(ciph.key) > 0) =>
    LET L == Len(ciph.key) IN
    /\ ~enc.panic
    /\ Len(enc.out) = Len(data)
    /\ \A i \in 0..(Len(data) - 1) :
         enc.out[i + 1] = ByteXor(data[i + 1], ciph.key[((offset + i) % L) + 1])
    /\ EncryptAt(ciph, data, offset + L) = enc

\* C14 witness: key "abc" and data [0, 0, 0] give 'a', 'b', 'c' bytes at offset 1
\* rotated to 'b', 'c', 'a', and 'a', 'b', 'c' at offsets 0 and 3.
C14_Witness ==
  /\ enc.called /\ ciph.kind = "xor" /\ ciph.key = <<97, 98, 99>>
  /\ data = <<0, 0, 0>> /\ offset = 1 /\ enc.out = <<98, 99, 97>>
  /\ EncryptAt(ciph, data, 0).out = <<97, 98, 99>>
  /\ EncryptAt(ciph, data, 3).out = <<97, 98, 99>>

\* C15: passthrough leaves data unchanged.  With mode 0 or no key configured
\* no call fails in a cipher, every Write hands the underlying stream exactly
\* the caller's bytes, and every Read and ReadAt returns exactly the bytes
\* and the byte count the underlying stream produced.
C15_Passthrough ==
  (EncryptionVersion = 0 \/ EncryptionKey.isNil) =>
    /\ ~panicked
    /\ last.op = "Write" => last.sent = last.p
    /\ last.op \in {"Read", "ReadAt"} =>
         (last.n = last.un /\ last.buf = last.got /\ Len(last.buf) = last.n)

\* C15 witness: with mode 1 and no key a Read returned the 41 bytes a Write
\* had stored, as they were written.
C15_Witness ==
  /\ EncryptionVersion = 1 /\ EncryptionKey.isNil
  /\ last.op = "Read" /\ last.n = BlockSize + 1
  /\ last.buf = plain /\ disk = plain

C16_SegmentIndependence ==
  (cpc = "done" /\ ciph.kind = "aes") =>
    /\ \A i \in 1..Len(data) :
         enc.out[i] = EncryptAt(ciph, <<data[i]>>, offset + i - 1).out[1]
    /\ flip.called =>
         /\ Len(flip.out) = Len(enc.out)
         /\ \A i \in 1..Len(data) : (flip.out[i] = enc.out[i]) <=> (i # split + 1)

\* C16 witness: the byte changed lies in the first segment and the
\* ciphertext reaches into the next one, which is unchanged.
C16_Witness ==
  /\ flip.called /\ ciph.kind = "aes"
  /\ offset + split < BlockSize /\ offset + Len(data) > BlockSize + 1
  /\ flip.out # enc.out
  /\ Slice(flip.out, BlockSize - offset, Len(data))
       = Slice(enc.out, BlockSize - offset, Len(data))

\* C17: segment-by-segment processing.  EncryptAt returns len(D) bytes; for
\* empty D it returns D and hands nothing to a keystream; otherwise the
\* chunks it hands to keystreams are contiguous, in order and cover D, each
\* lies inside one segment [b, b + 40) and is XORed with the keystream of the
\* IV of b (the first 8 key bytes, then b in 8 little-endian bytes) after
\* exactly (chunk start - b) keystream bytes were discarded, and the loop
\* over the segments ends with processed = len(D).
C17_SegmentBySegment ==
  (enc.called /\ ciph.kind = "aes") =>
    LET chunks == run.chunks
        n == Len(chunks)
    IN /\ ~enc.panic /\ enc.out = run.result /\ Len(enc.out) = Len(data)
       /\ Len(data) = 0 => (n = 0 /\ enc.out = data /\ ~run.looped)
       /\ Len(data) > 0 =>
            /\ n >= 1 /\ chunks[1].lo = 0 /\ chunks[n].hi = Len(data)
            /\ \A k \in 1..(n - 1) : chunks[k + 1].lo = chunks[k].hi
            /\ \A k \in 1..n :
                 LET start == offset + chunks[k].lo
                     b == (start \div BlockSize) * BlockSize
                 IN /\ chunks[k].lo < chunks[k].hi
                    /\ offset + chunks[k].hi <= b + BlockSize
                    /\ chunks[k].skip = start - b
                    /\ chunks[k].iv =
                         Slice(ciph.key, 0, 8) \o
                         <<b % 256, (b \div 256) % 256, (b \div 65536) % 256,
                           (b \div 16777216) % 256, 0, 0, 0, 0>>
            /\ run.looped <=> (offset % BlockSize) + Len(data) > BlockSize
            /\ run.looped => run.processed = Len(data)

\* C17 witness: Example 2, bytes [35, 100) are processed as [35, 40) with 35
\* keystream bytes discarded, then [40, 80) and [80, 100) from the start of
\* their segments.
C17_Witness ==
  /\ enc.called /\ ciph.kind = "aes" /\ offset = 35 /\ Len(data) = 65
  /\ Len(run.chunks) = 3
  /\ run.chunks[1].hi = 5 /\ run.chunks[1].skip = 35
  /\ run.chunks[2].hi = 45 /\ run.chunks[2].skip = 0
  /\ run.chunks[3].hi = 65 /\ run.chunks[3].iv[9] = 80
  /\ run.looped /\ run.processed = 65

\* C20: Write never modifies the caller's buffer.  After Write(p), whether
\* it returned all of len(p), a short count with an error, or panicked, p
\* holds what it held before; with a cipher the bytes handed to the
\* underlying stream are those of the buffer EncryptAt allocated.  DecryptAt
\* likewise leaves the bytes it is given as they were.
C20_CallerBufferUnchanged ==
  /\ last.op = "Write" =>
       /\ last.buf = last.p
       /\ (last.ciphered /\ last.err # "panic") =>
            last.sent = EncryptAtRun(w.cipher, last.p, last.cipherAt).result
  /\ (last.op \in {"Read", "ReadAt"} /\ last.ciphered) =>
       EncryptAtRun(r.cipher, last.got, last.cipherAt).data = last.got

\* C20 witness: a Write of 41 bytes through the segmented counter cipher was
\* cut short by the underlying stream; the buffer handed down differs from
\* the caller's in every byte compared, the caller's is as it was.
C20_Witness ==
  /\ last.op = "Write" /\ w.cipher.kind = "aes" /\ last.err = "ErrShortWrite"
  /\ Len(last.p) = BlockSize + 1 /\ Len(last.sent) = BlockSize + 1
  /\ last.sent # last.p
  /\ last.buf = [i \in 1..(BlockSize + 1) |-> SourceByte(last.at + i - 1)]

\* No call is in progress on any handle.
AllReturned ==
  /\ hr.state # "called"
  /\ \A fd \in FileDescs : hw[fd].state # "called"

\* C11: byte counters under concurrency.  With Read, ReadAt and Write calls
\* of several handles interleaved in any way, once all calls have returned
\* totalRead and totalWritten are the sums of the byte counts the calls
\* transferred, and no step ever lowers a counter.
C11_CountersUnderConcurrency ==
  /\ [](AllReturned => (read = sumRead /\ write = sumWritten))
  /\ [][read' >= read /\ write' >= write]_vars

C19_DeliveredIsPlaintext ==
  (last.op \in {"Read", "ReadAt"} /\ last.err # "panic" /\ last.un > 0) =>
    /\ last.n = last.un /\ last.err = last.uerr
    /\ last.buf = IF r.cipher.kind # "nil"
                    THEN DecryptAt(r.cipher, last.got, last.at).out
                    ELSE last.got
    /\ (last.op = "Read" /\ r.cipher.kind # "nil") =>
         /\ r.offset = last.at + last.n
         /\ cursor = r.offset

\* C19 witness: a Read that follows an earlier Read got the last bytes of the
\* file together with EOF and delivered them decrypted.
C19_Witness ==
  /\ last.op = "Read" /\ last.uerr = "EOF" /\ last.n > 0 /\ last.at > 0
  /\ r.cipher.kind = "xor" /\ cursor = Len(disk)
  /\ last.buf # last.got
  /\ last.buf = Slice(plain, last.at, last.at + last.n)
====
